---- MODULE Spec2Model ----
(***************************************************************************)
(* Tic-tac-toe robot firmware (src/robot.ino, first revision, lines 1-832) *)
(* as a state machine: the control loop, the command dispatch, the two     *)
(* blocking game sessions, the wait for the human's move and the rule      *)
(* engine.  The environment is the human (who changes the pieces on the    *)
(* physical board), the serial line (bytes arriving in the input buffer)   *)
(* and the clock (the 60 s timer of the wait).                             *)
(***************************************************************************)
EXTENDS Integers, Sequences, FiniteSets, TLC

VARIABLES
  pc,                    \* where the single thread of control is
  mode,                  \* "none", "machineFirst" ('4') or "humanFirst" ('5')
  boardState,            \* int boardState[9]
  storedBoardState,      \* int storedBoardState[9], the guard's reference
  previousState,         \* int previousState[9], local of waitForHumanMove
  blackPiecesCount,
  whitePiecesCount,
  currentPlayer,
  gameActive,
  moveDetectionFirstRun,
  machineMove,           \* local of the sessions: last result of findBestMove
  humanMove,             \* local of the sessions: last result of waitForHumanMove
  timedOut,              \* millis() - startTime > timeout, at the next check
  serialIn,              \* the serial input buffer (unread bytes)
  serialOut,             \* the messages of the last step that printed any
  sensors,               \* the piece the hall sensors of each cell see
  events,                \* how many events the environment has produced
  boardRotated,          \* bool boardRotated, the last sample of the sensor
  rotationSensor,        \* digitalRead(rotationSensor) == HIGH
  currentMagnetState,    \* 0: off, 1: holding black, 2: holding white
  position,              \* where moveToPosition last took the end-effector
  positions,             \* local of placeTwoBlackTwoWhite: positions[0..i-1]
  placed                 \* local of placeTwoBlackTwoWhite: i of the 2nd loop

vars == <<pc, mode, boardState, storedBoardState, previousState,
          blackPiecesCount, whitePiecesCount, currentPlayer, gameActive,
          moveDetectionFirstRun, machineMove, humanMove, timedOut,
          serialIn, serialOut, sensors, events, boardRotated,
          rotationSensor, currentMagnetState, position, positions, placed>>

\* the locals of command '2' and the rotation sensor: what the sessions and
\* the human at the board leave alone
taskVars == <<rotationSensor, positions, placed>>

(***************************************************************************)
(* Bounds of the environment                                               *)
(***************************************************************************)
\* how many events (a change of a cell by the human, a byte received, the
\* timer expiring) the environment produces in one run
MaxEvents == 4

\* how many events (a line received, the board turned) the environment
\* produces in one run of the commands
MaxTaskEvents == 6

(***************************************************************************)
(* Program constants                                                       *)
(***************************************************************************)
Empty == 0
Black == 1
White == 2
InitialPieces == 5

Cells == 0..8
Colours == {Black, White}
Boards == [Cells -> {Empty, Black, White}]
EmptyBoard == [i \in Cells |-> Empty]

\* The bytes the serial line can deliver: the commands modelled, and "x" for
\* any byte executeCommand ignores (a line end, a stray key).
Bytes == {"1", "4", "5", "6", "r", "x"}

(***************************************************************************)
(* SensorBoard                                                             *)
(***************************************************************************)
\* what the two detectors of a cell can see besides nothing, a black piece
\* or a white piece: both poles at once (a fault of a detector, two magnets)
Both == 3

\* digitalRead(hallSensorS[i]) == LOW: a south pole (black piece) on cell i
hallSensorS(s, i) == s[i] \in {Black, Both}
\* digitalRead(hallSensorN[i]) == LOW: a north pole (white piece) on cell i
hallSensorN(s, i) == s[i] \in {White, Both}

\* updateBoardState(): the board the sensors show
updateBoardState(s) ==
  [i \in Cells |-> IF hallSensorS(s, i) THEN Black
                   ELSE IF hallSensorN(s, i) THEN White
                   ELSE Empty]

(***************************************************************************)
(* Supply ledger and actuator                                              *)
(***************************************************************************)
\* pickBlackPiece / pickWhitePiece: TRUE iff the pick is not refused
pickSucceeds(count) ==
  LET pieceIndex == InitialPieces - count
  IN  ~(pieceIndex < 0 \/ pieceIndex >= InitialPieces)

\* a pick that counts the piece down also when it is refused
MutPickAlwaysCounts(count) == count - 1

\* the supply counter after a pick
pickCount(count) == IF pickSucceeds(count) THEN count - 1 ELSE count

\* where the end-effector is after a pick that was not refused: over the
\* supply area beside the board, over no cell
SupplyArea == 9

\* moveToHome(): moveToPosition(0, 0), the origin of the coordinates, which
\* is the centre of the board: gridPositionsX[1] = gridPositionsY[1] = 0 and
\* rotatedGridPositionsX[4] = rotatedGridPositionsY[4] = 0, the place of cell 4
Home == 4

\* a placePiece that leaves the electromagnet as it is
MutMagnetStaysOn(m) == m

\* enableMagnetForBlack / enableMagnetForWhite: currentMagnetState afterwards
enableMagnet(colour) == colour

\* disableMagnet(): currentMagnetState afterwards
disableMagnet(m) == 0

\* currentMagnetState after pickBlackPiece / pickWhitePiece of `colour'
pickMagnet(count, colour, m) ==
  IF pickSucceeds(count) THEN enableMagnet(colour) ELSE m

\* placePiece(): the held piece, if any, is released where the end-effector
\* is; released over a cell, it is what the cell's sensors then see
placePiece(s, pos, held) ==
  IF held = Empty \/ pos \notin Cells THEN s ELSE [s EXCEPT ![pos] = held]

(***************************************************************************)
(* RuleEngine.  The functions read the globals boardState,                 *)
(* blackPiecesCount and whitePiecesCount; here they are parameters.        *)
(***************************************************************************)
checkWin(board, bc, wc, player) ==
  IF player = 1 /\ (5 - bc) < 3 THEN FALSE
  ELSE IF player = 2 /\ (5 - wc) < 3 THEN FALSE
  ELSE \/ \E i \in 0..2 : board[i * 3] = player /\ board[i * 3 + 1] = player
                          /\ board[i * 3 + 2] = player
       \/ \E i \in 0..2 : board[i] = player /\ board[i + 3] = player
                          /\ board[i + 6] = player
       \/ board[0] = player /\ board[4] = player /\ board[8] = player
       \/ board[2] = player /\ board[4] = player /\ board[6] = player

\* an isBoardFull that never finds the board full
MutBoardNeverFull(board) == FALSE

isBoardFull(board) == ~ \E i \in Cells : board[i] = 0

\* the for loop of findWinningMove from index i on
RECURSIVE findWinningMoveFrom(_, _, _, _, _)
findWinningMoveFrom(board, bc, wc, player, i) ==
  IF i >= 9 THEN -1
  ELSE IF board[i] = 0 /\ checkWin([board EXCEPT ![i] = player], bc, wc, player)
       THEN i
       ELSE findWinningMoveFrom(board, bc, wc, player, i + 1)

findWinningMove(board, bc, wc, player) ==
  findWinningMoveFrom(board, bc, wc, player, 0)

\* the corners tried in another order
MutCornersOrder == <<0, 6, 2, 8>>

corners == <<0, 2, 6, 8>>
edges == <<1, 3, 5, 7>>

\* the first cell of the list `order', from position k on, that is empty
RECURSIVE firstEmpty(_, _, _)
firstEmpty(board, order, k) ==
  IF k > Len(order) THEN -1
  ELSE IF board[order[k]] = 0 THEN order[k]
       ELSE firstEmpty(board, order, k + 1)

\* findBestMove that takes the centre without looking whether it is empty
MutBestMoveTakesCentre(board, bc, wc, player) ==
  LET opponent == IF player = 1 THEN 2 ELSE 1
      winningMove == findWinningMove(board, bc, wc, player)
      blockingMove == findWinningMove(board, bc, wc, opponent)
  IN  IF winningMove # -1 THEN winningMove
      ELSE IF blockingMove # -1 THEN blockingMove
      ELSE 4

findBestMove(board, bc, wc, player) ==
  LET opponent == IF player = 1 THEN 2 ELSE 1
      winningMove == findWinningMove(board, bc, wc, player)
      blockingMove == findWinningMove(board, bc, wc, opponent)
      corner == firstEmpty(board, corners, 1)
      edge == firstEmpty(board, edges, 1)
  IN  IF winningMove # -1 THEN winningMove
      ELSE IF blockingMove # -1 THEN blockingMove
      ELSE IF board[4] = 0 THEN 4
      ELSE IF corner # -1 THEN corner
      ELSE IF edge # -1 THEN edge
      ELSE firstEmpty(board, <<0, 1, 2, 3, 4, 5, 6, 7, 8>>, 1)

\* a findWinningMove that leaves its tentative piece on the board
MutRevertKeeps(board, i) == board

\* boardState[i] = 0 after the tentative placement of findWinningMove
revert(board, i) == [board EXCEPT ![i] = 0]

\* boardState on return from the for loop of findWinningMove, entered at
\* index i: each empty cell is written, tested and written back
RECURSIVE findWinningMoveBoardFrom(_, _, _, _, _)
findWinningMoveBoardFrom(board, bc, wc, player, i) ==
  IF i >= 9 THEN board
  ELSE IF board[i] = 0
       THEN LET tried == [board EXCEPT ![i] = player]
            IN  IF checkWin(tried, bc, wc, player)
                THEN revert(tried, i)
                ELSE findWinningMoveBoardFrom(revert(tried, i), bc, wc,
                                              player, i + 1)
       ELSE findWinningMoveBoardFrom(board, bc, wc, player, i + 1)

\* boardState on return from findWinningMove(player)
findWinningMoveBoard(board, bc, wc, player) ==
  findWinningMoveBoardFrom(board, bc, wc, player, 0)

\* boardState on return from findBestMove(player): the second call of
\* findWinningMove is made only when the first returned -1, and nothing
\* after the two calls writes
findBestMoveBoard(board, bc, wc, player) ==
  LET opponent == IF player = 1 THEN 2 ELSE 1
      afterOwn == findWinningMoveBoard(board, bc, wc, player)
  IN  IF findWinningMove(board, bc, wc, player) # -1 THEN afterOwn
      ELSE findWinningMoveBoard(afterOwn, bc, wc, opponent)

(***************************************************************************)
(* MoveGuard                                                               *)
(***************************************************************************)
\* a guard that corrects and leaves the reference as it was
RECURSIVE MutGuardKeepsReference(_, _)
MutGuardKeepsReference(g, i) ==
  IF i >= 9 THEN g
  ELSE IF g.board[i] # g.stored[i]
       THEN LET ref == g.stored[i]
                bc == IF ref = 1 THEN pickCount(g.bc) ELSE g.bc
                wc == IF ref = 2 THEN pickCount(g.wc) ELSE g.wc
            IN  MutGuardKeepsReference(
                  [g EXCEPT !.bc = bc, !.wc = wc,
                            !.out = Append(g.out, "moved")], i + 1)
       ELSE MutGuardKeepsReference(g, i + 1)

\* the for loop of checkForMovedPieces from index i on; g holds the globals
\* the loop reads and writes, the sensors and the lines printed
RECURSIVE checkForMovedPiecesFrom(_, _)
checkForMovedPiecesFrom(g, i) ==
  IF i >= 9 THEN g
  ELSE IF g.board[i] # g.stored[i]
       THEN LET ref == g.stored[i]
                picked == \/ ref = 1 /\ pickSucceeds(g.bc)
                          \/ ref = 2 /\ pickSucceeds(g.wc)
                bc == IF ref = 1 THEN pickCount(g.bc) ELSE g.bc
                wc == IF ref = 2 THEN pickCount(g.wc) ELSE g.wc
                held == IF picked THEN enableMagnet(ref) ELSE g.magnet
                \* moveToGrid(i) comes before the pick, which moves on to
                \* the supply area: the piece is released there
                pos == IF picked THEN SupplyArea ELSE i
                sens == IF ref = 0 THEN g.sens ELSE placePiece(g.sens, pos, held)
                board == updateBoardState(sens)
            IN  checkForMovedPiecesFrom(
                  [board |-> board, stored |-> board, bc |-> bc, wc |-> wc,
                   sens |-> sens, firstRun |-> g.firstRun,
                   pos |-> IF ref = 0 THEN g.pos ELSE pos,
                   magnet |-> IF ref = 0 THEN g.magnet ELSE disableMagnet(held),
                   out |-> Append(g.out, "moved")
                           \o (IF ref = 1 THEN <<"restoredBlack">>
                               ELSE IF ref = 2 THEN <<"restoredWhite">>
                               ELSE << >>)], i + 1)
       ELSE checkForMovedPiecesFrom(g, i + 1)

\* a guard without the test of gameActive
MutGuardUngated(g, active) ==
  IF g.firstRun
  THEN [g EXCEPT !.board = updateBoardState(g.sens),
                 !.stored = updateBoardState(g.sens),
                 !.firstRun = FALSE]
  ELSE checkForMovedPiecesFrom(
         [g EXCEPT !.board = updateBoardState(g.sens)], 0)

checkForMovedPieces(g, active) ==
  IF ~active THEN g
  ELSE IF g.firstRun
       THEN [g EXCEPT !.board = updateBoardState(g.sens),
                      !.stored = updateBoardState(g.sens),
                      !.firstRun = FALSE]
       ELSE checkForMovedPiecesFrom(
              [g EXCEPT !.board = updateBoardState(g.sens)], 0)

\* loop(), lines 93-99: the board is sampled and the guard runs
loopHead ==
  checkForMovedPieces(
    [board |-> updateBoardState(sensors), stored |-> storedBoardState,
     bc |-> blackPiecesCount, wc |-> whitePiecesCount, sens |-> sensors,
     firstRun |-> moveDetectionFirstRun, pos |-> position,
     magnet |-> currentMagnetState, out |-> << >>], gameActive)

(***************************************************************************)
(* The wait for the human's move                                           *)
(***************************************************************************)
\* a wait that never looks at the serial input
MutAbortNeverSeen(buf) == FALSE

\* Serial.available() > 0 and Serial.peek() == 'r'
abortRequested(buf) == Len(buf) > 0 /\ Head(buf) = "r"

\* a scan that returns the cell without looking at what it held before
RECURSIVE MutScanAcceptsOverwrite(_, _, _, _)
MutScanAcceptsOverwrite(board, prev, playerValue, i) ==
  IF i >= 9 THEN [returned |-> FALSE, value |-> -1, out |-> << >>]
  ELSE IF board[i] = playerValue /\ prev[i] # playerValue
       THEN [returned |-> TRUE, value |-> i, out |-> << >>]
       ELSE MutScanAcceptsOverwrite(board, prev, playerValue, i + 1)

\* a scan that passes over a cell that was occupied
RECURSIVE MutScanSkipsOverwrite(_, _, _, _)
MutScanSkipsOverwrite(board, prev, playerValue, i) ==
  IF i >= 9 THEN [returned |-> FALSE, value |-> -1, out |-> << >>]
  ELSE IF board[i] = playerValue /\ prev[i] = 0
       THEN [returned |-> TRUE, value |-> i, out |-> << >>]
       ELSE MutScanSkipsOverwrite(board, prev, playerValue, i + 1)

\* the for loop of waitForHumanMove from index i on: the cell returned,
\* -1 for "not an empty cell", or no return at all
RECURSIVE scanForMove(_, _, _, _)
scanForMove(board, prev, playerValue, i) ==
  IF i >= 9 THEN [returned |-> FALSE, value |-> -1, out |-> << >>]
  ELSE IF board[i] = playerValue /\ prev[i] # playerValue
       THEN IF prev[i] # 0
            THEN [returned |-> TRUE, value |-> -1, out |-> <<"notEmptyCell">>]
            ELSE [returned |-> TRUE, value |-> i, out |-> << >>]
       ELSE scanForMove(board, prev, playerValue, i + 1)

\* one iteration of the while (true) of waitForHumanMove
waitForHumanMove(expired, buf, sens, prev, playerValue) ==
  LET remind == IF expired THEN <<"timeout">> ELSE << >>
      board == updateBoardState(sens)
      scan == scanForMove(board, prev, playerValue, 0)
  IN  IF abortRequested(buf)
      THEN [returned |-> TRUE, value |-> -1, abort |-> TRUE,
            sampled |-> FALSE, out |-> remind]
      ELSE [returned |-> scan.returned, value |-> scan.value, abort |-> FALSE,
            sampled |-> TRUE, out |-> remind \o scan.out]

(***************************************************************************)
(* The state after setup(): the control loop is about to run               *)
(***************************************************************************)
Init ==
  /\ pc = "loop"
  /\ mode = "none"
  /\ boardState = EmptyBoard
  /\ storedBoardState = EmptyBoard
  /\ previousState = EmptyBoard
  /\ blackPiecesCount = InitialPieces
  /\ whitePiecesCount = InitialPieces
  /\ currentPlayer = 1
  /\ gameActive = FALSE
  /\ moveDetectionFirstRun = TRUE
  /\ machineMove = -1
  /\ humanMove = -1
  /\ timedOut = FALSE
  /\ serialIn = << >>
  /\ serialOut = <<"ready">>
  /\ sensors = EmptyBoard
  /\ events = 0
  /\ boardRotated = FALSE
  /\ rotationSensor = FALSE
  /\ currentMagnetState = disableMagnet(0)
  /\ position = Home
  /\ positions = << >>
  /\ placed = 0

(***************************************************************************)
(* The environment                                                         *)
(***************************************************************************)
\* The human, whose turn it is, puts a piece on a cell, swaps it or takes it
\* away.  (Between sessions the board keeps the pieces of the last one.)
HumanChangesCell(i, v) ==
  /\ pc = "humanWait"
  /\ events < MaxEvents
  /\ sensors[i] # v
  /\ sensors' = [sensors EXCEPT ![i] = v]
  /\ events' = events + 1
  /\ UNCHANGED <<pc, mode, boardState, storedBoardState, previousState,
                 blackPiecesCount, whitePiecesCount, currentPlayer, gameActive,
                 moveDetectionFirstRun, machineMove, humanMove, timedOut,
                 serialIn, serialOut, boardRotated, currentMagnetState,
                 position, taskVars>>

\* A byte arrives on the serial line.
SerialReceives(b) ==
  /\ pc \in {"loop", "humanWait"}
  /\ events < MaxEvents
  /\ serialIn' = Append(serialIn, b)
  /\ events' = events + 1
  /\ UNCHANGED <<pc, mode, boardState, storedBoardState, previousState,
                 blackPiecesCount, whitePiecesCount, currentPlayer, gameActive,
                 moveDetectionFirstRun, machineMove, humanMove, timedOut,
                 serialOut, sensors, boardRotated, currentMagnetState,
                 position, taskVars>>

\* 60 s have passed since the wait (re)started its timer.
TimerExpires ==
  /\ pc = "humanWait"
  /\ ~timedOut
  /\ events < MaxEvents
  /\ timedOut' = TRUE
  /\ events' = events + 1
  /\ UNCHANGED <<pc, mode, boardState, storedBoardState, previousState,
                 blackPiecesCount, whitePiecesCount, currentPlayer, gameActive,
                 moveDetectionFirstRun, machineMove, humanMove,
                 serialIn, serialOut, sensors, boardRotated,
                 currentMagnetState, position, taskVars>>

(***************************************************************************)
(* loop() and executeCommand()                                             *)
(***************************************************************************)
\* an iteration of loop() with no byte to read
LoopIdle ==
  /\ pc = "loop"
  /\ serialIn = << >>
  /\ LET g == loopHead
     IN  /\ boardState' = g.board
         /\ storedBoardState' = g.stored
         /\ blackPiecesCount' = g.bc
         /\ whitePiecesCount' = g.wc
         /\ sensors' = g.sens
         /\ moveDetectionFirstRun' = g.firstRun
         /\ serialOut' = IF g.out = << >> THEN serialOut ELSE g.out
         /\ currentMagnetState' = g.magnet
         /\ position' = g.pos
  /\ boardRotated' = rotationSensor
  /\ UNCHANGED <<pc, mode, previousState, currentPlayer, gameActive,
                 machineMove, humanMove, timedOut, serialIn, events, taskVars>>

\* '1': placeBlackToCenter
Command1 ==
  /\ pc = "loop"
  /\ serialIn # << >>
  /\ Head(serialIn) = "1"
  /\ serialIn' = Tail(serialIn)
  /\ LET g == loopHead
         held == pickMagnet(g.bc, Black, g.magnet)
     IN  /\ boardState' = g.board
         /\ storedBoardState' = g.stored
         /\ blackPiecesCount' = pickCount(g.bc)
         /\ whitePiecesCount' = g.wc
         /\ sensors' = placePiece(g.sens, 4, held)
         /\ currentMagnetState' = disableMagnet(held)
         /\ moveDetectionFirstRun' = g.firstRun
         /\ serialOut' = g.out \o <<"task1">>
  /\ position' = Home
  /\ boardRotated' = rotationSensor
  /\ UNCHANGED <<pc, mode, previousState, currentPlayer, gameActive,
                 machineMove, humanMove, timedOut, events, taskVars>>

\* '6': manualUpdateBoardState; printBoard
Command6 ==
  /\ pc = "loop"
  /\ serialIn # << >>
  /\ Head(serialIn) = "6"
  /\ serialIn' = Tail(serialIn)
  /\ LET g == loopHead
     IN  /\ boardState' = updateBoardState(g.sens)
         /\ storedBoardState' = updateBoardState(g.sens)
         /\ blackPiecesCount' = g.bc
         /\ whitePiecesCount' = g.wc
         /\ sensors' = g.sens
         /\ moveDetectionFirstRun' = g.firstRun
         /\ serialOut' = g.out \o <<"task6">>
         /\ currentMagnetState' = g.magnet
         /\ position' = g.pos
  /\ boardRotated' = rotationSensor
  /\ UNCHANGED <<pc, mode, previousState, currentPlayer, gameActive,
                 machineMove, humanMove, timedOut, events, taskVars>>

\* a resetGame that forgets the supply counters
MutResetKeepsCounts ==
  [board |-> EmptyBoard, stored |-> EmptyBoard, bc |-> blackPiecesCount,
   wc |-> whitePiecesCount, player |-> 1, active |-> FALSE, firstRun |-> TRUE,
   pos |-> Home]

\* a resetGame that leaves the reference as it is
MutResetKeepsReference ==
  [board |-> EmptyBoard, stored |-> storedBoardState, bc |-> 5, wc |-> 5,
   player |-> 1, active |-> FALSE, firstRun |-> TRUE, pos |-> Home]

\* resetGame(): the globals it assigns, and the end-effector after moveToHome
resetGame ==
  [board |-> EmptyBoard, stored |-> EmptyBoard, bc |-> 5, wc |-> 5,
   player |-> 1, active |-> FALSE, firstRun |-> TRUE, pos |-> Home]

\* 'r': resetGame
CommandReset ==
  /\ pc = "loop"
  /\ serialIn # << >>
  /\ Head(serialIn) = "r"
  /\ serialIn' = Tail(serialIn)
  /\ LET g == loopHead
     IN  /\ sensors' = g.sens
         /\ currentMagnetState' = g.magnet
         /\ serialOut' = g.out \o <<"reset">>
  /\ boardState' = resetGame.board
  /\ storedBoardState' = resetGame.stored
  /\ blackPiecesCount' = resetGame.bc
  /\ whitePiecesCount' = resetGame.wc
  /\ currentPlayer' = resetGame.player
  /\ gameActive' = resetGame.active
  /\ moveDetectionFirstRun' = resetGame.firstRun
  /\ position' = resetGame.pos
  /\ boardRotated' = rotationSensor
  /\ UNCHANGED <<pc, mode, previousState, machineMove, humanMove, timedOut,
                 events, taskVars>>

\* a byte executeCommand has no case for
CommandIgnored ==
  /\ pc = "loop"
  /\ serialIn # << >>
  /\ Head(serialIn) \notin {"1", "2", "3", "4", "5", "6", "r", "h"}
  /\ serialIn' = Tail(serialIn)
  /\ LET g == loopHead
     IN  /\ boardState' = g.board
         /\ storedBoardState' = g.stored
         /\ blackPiecesCount' = g.bc
         /\ whitePiecesCount' = g.wc
         /\ sensors' = g.sens
         /\ moveDetectionFirstRun' = g.firstRun
         /\ serialOut' = IF g.out = << >> THEN serialOut ELSE g.out
         /\ currentMagnetState' = g.magnet
         /\ position' = g.pos
  /\ boardRotated' = rotationSensor
  /\ UNCHANGED <<pc, mode, previousState, currentPlayer, gameActive,
                 machineMove, humanMove, timedOut, events, taskVars>>

\* '4': startGameAsMachine, up to the while (gameActive)
Command4 ==
  /\ pc = "loop"
  /\ serialIn # << >>
  /\ Head(serialIn) = "4"
  /\ serialIn' = Tail(serialIn)
  /\ LET g == loopHead
     IN  /\ sensors' = g.sens
         /\ currentMagnetState' = g.magnet
         /\ serialOut' = g.out \o <<"reset", "start4">>
  /\ boardState' = resetGame.board
  /\ storedBoardState' = resetGame.stored
  /\ blackPiecesCount' = resetGame.bc
  /\ whitePiecesCount' = resetGame.wc
  /\ currentPlayer' = 1
  /\ gameActive' = TRUE
  /\ moveDetectionFirstRun' = TRUE
  /\ position' = resetGame.pos
  /\ boardRotated' = rotationSensor
  /\ pc' = "machineTurn"
  /\ mode' = "machineFirst"
  /\ machineMove' = -1
  /\ humanMove' = -1
  /\ UNCHANGED <<previousState, timedOut, events, taskVars>>

\* '5': startGameAsHuman, up to the first iteration of waitForHumanMove(1)
Command5 ==
  /\ pc = "loop"
  /\ serialIn # << >>
  /\ Head(serialIn) = "5"
  /\ serialIn' = Tail(serialIn)
  /\ LET g == loopHead
     IN  /\ sensors' = g.sens
         /\ currentMagnetState' = g.magnet
         /\ serialOut' = g.out \o <<"reset", "start5">>
  /\ boardState' = resetGame.board
  /\ storedBoardState' = resetGame.stored
  /\ blackPiecesCount' = resetGame.bc
  /\ whitePiecesCount' = resetGame.wc
  /\ currentPlayer' = 1
  /\ gameActive' = TRUE
  /\ moveDetectionFirstRun' = TRUE
  /\ position' = resetGame.pos
  /\ boardRotated' = rotationSensor
  /\ pc' = "humanWait"
  /\ mode' = "humanFirst"
  /\ previousState' = resetGame.board
  /\ timedOut' = FALSE
  /\ machineMove' = -1
  /\ humanMove' = -1
  /\ UNCHANGED <<events, taskVars>>

(***************************************************************************)
(* The sessions: startGameAsMachine and startGameAsHuman                   *)
(***************************************************************************)
\* the colour the machine plays: 1 in startGameAsMachine, 2 in startGameAsHuman
machineColour == IF mode = "machineFirst" THEN Black ELSE White
humanColour == IF mode = "machineFirst" THEN White ELSE Black

\* how a session goes on after a move of `player' that left `board':
\* checkWin(player), then isBoardFull()
afterMove(board, bc, wc, player) ==
  IF checkWin(board, bc, wc, player) THEN "win"
  ELSE IF isBoardFull(board) THEN "draw"
  ELSE "continue"

\* the machine's turn: findBestMove, pick, moveToGrid, placePiece, the update
\* of boardState and of the reference, win and draw checks
MachineTurn ==
  /\ pc = "machineTurn"
  /\ LET mc == machineColour
         move == findBestMove(boardState, blackPiecesCount, whitePiecesCount, mc)
         count == IF mc = Black THEN blackPiecesCount ELSE whitePiecesCount
         held == pickMagnet(count, mc, currentMagnetState)
         bc == IF mc = Black THEN pickCount(blackPiecesCount)
               ELSE blackPiecesCount
         wc == IF mc = White THEN pickCount(whitePiecesCount)
               ELSE whitePiecesCount
         searched == findBestMoveBoard(boardState, blackPiecesCount,
                                       whitePiecesCount, mc)
         board == [searched EXCEPT ![move] = mc]
         next == afterMove(board, bc, wc, mc)
     IN  /\ machineMove' = move
         /\ IF move = -1
            THEN /\ gameActive' = FALSE
                 /\ pc' = "loop"
                 /\ mode' = "none"
                 /\ serialOut' = <<"noMoves", "gameOver">>
                 /\ position' = Home
                 /\ boardState' = searched
                 /\ UNCHANGED <<storedBoardState, previousState,
                                blackPiecesCount, whitePiecesCount, sensors,
                                timedOut, currentMagnetState>>
            ELSE /\ blackPiecesCount' = bc
                 /\ whitePiecesCount' = wc
                 /\ sensors' = placePiece(sensors, move, held)
                 /\ currentMagnetState' = disableMagnet(held)
                 /\ position' = IF next = "continue" THEN move ELSE Home
                 /\ boardState' = board
                 /\ storedBoardState' = board
                 /\ timedOut' = FALSE
                 /\ IF next = "continue"
                    THEN /\ pc' = "humanWait"
                         /\ previousState' = board
                         /\ serialOut' = <<"machineMove">>
                         /\ UNCHANGED <<gameActive, mode>>
                    ELSE /\ gameActive' = FALSE
                         /\ pc' = "loop"
                         /\ mode' = "none"
                         /\ serialOut' = <<"machineMove",
                                IF next = "win" THEN "machineWins" ELSE "draw",
                                "gameOver">>
                         /\ UNCHANGED previousState
  /\ UNCHANGED <<currentPlayer, moveDetectionFirstRun, humanMove, serialIn,
                 events, boardRotated, taskVars>>

\* one iteration of the wait for the human's move and, when the wait
\* returns, what the session does with the result
WaitPoll ==
  /\ pc = "humanWait"
  /\ LET hc == humanColour
         w == waitForHumanMove(timedOut, serialIn, sensors, previousState, hc)
         board == IF w.sampled THEN updateBoardState(sensors) ELSE boardState
         next == afterMove(board, blackPiecesCount, whitePiecesCount, hc)
     IN  /\ serialIn' = IF w.abort THEN Tail(serialIn) ELSE serialIn
         /\ boardState' = board
         /\ timedOut' = FALSE
         /\ position' = IF w.returned /\ (w.value = -1 \/ next # "continue")
                        THEN Home ELSE position
         /\ IF ~w.returned
            THEN /\ serialOut' = IF w.out = << >> THEN serialOut ELSE w.out
                 /\ UNCHANGED <<pc, mode, gameActive, humanMove,
                                storedBoardState, previousState>>
            ELSE /\ humanMove' = w.value
                 /\ previousState' = EmptyBoard
                 /\ IF w.value = -1
                    THEN /\ gameActive' = FALSE
                         /\ pc' = "loop"
                         /\ mode' = "none"
                         /\ serialOut' = w.out \o <<"aborted", "gameOver">>
                         /\ UNCHANGED storedBoardState
                    ELSE /\ storedBoardState' = board
                         /\ IF next = "continue"
                            THEN /\ pc' = "machineTurn"
                                 /\ serialOut' = w.out \o <<"humanMove">>
                                 /\ UNCHANGED <<gameActive, mode>>
                            ELSE /\ gameActive' = FALSE
                                 /\ pc' = "loop"
                                 /\ mode' = "none"
                                 /\ serialOut' = w.out \o <<"humanMove",
                                      IF next = "win" THEN "humanWins"
                                      ELSE "draw", "gameOver">>
  /\ UNCHANGED <<blackPiecesCount, whitePiecesCount, currentPlayer,
                 moveDetectionFirstRun, machineMove, sensors, events,
                 boardRotated, currentMagnetState, taskVars>>

(***************************************************************************)
(* The firmware and its environment                                        *)
(***************************************************************************)
Next ==
  \/ \E i \in Cells, v \in {Empty, Black, White} : HumanChangesCell(i, v)
  \/ \E b \in Bytes : SerialReceives(b)
  \/ TimerExpires
  \/ LoopIdle
  \/ Command1
  \/ Command6
  \/ CommandReset
  \/ CommandIgnored
  \/ Command4
  \/ Command5
  \/ MachineTurn
  \/ WaitPoll

Spec == Init /\ [][Next]_vars

\* The steps of the firmware.  The processor never stops: loop() is called
\* again and again, and a blocking call polls again and again.
Firmware ==
  \/ LoopIdle
  \/ Command1
  \/ Command6
  \/ CommandReset
  \/ CommandIgnored
  \/ Command4
  \/ Command5
  \/ MachineTurn
  \/ WaitPoll

SpecFair == Init /\ [][Next]_vars /\ WF_vars(Firmware)

TypeOK ==
  /\ pc \in {"loop", "machineTurn", "humanWait", "task2Input", "task3Wait",
            "task2Place"}
  /\ mode \in {"none", "machineFirst", "humanFirst"}
  /\ boardState \in Boards
  /\ storedBoardState \in Boards
  /\ previousState \in Boards
  /\ blackPiecesCount \in 0..5
  /\ whitePiecesCount \in 0..5
  /\ gameActive \in BOOLEAN
  /\ machineMove \in -1..8
  /\ humanMove \in -1..8
  /\ sensors \in [Cells -> {Empty, Black, White, Both}]
  /\ boardRotated \in BOOLEAN
  /\ rotationSensor \in BOOLEAN
  /\ currentMagnetState \in {Empty, Black, White}
  /\ position \in Cells \cup {SupplyArea}
  /\ positions \in Seq(Cells)
  /\ placed \in 0..3

(***************************************************************************)
(* The placing commands '2' and '3', and Serial.parseInt                   *)
(***************************************************************************)
Digits == {"0", "1", "2", "3", "4", "5", "6", "7", "8", "9"}

\* c - '0'
digitValue(c) ==
  CASE c = "0" -> 0 [] c = "1" -> 1 [] c = "2" -> 2 [] c = "3" -> 3
    [] c = "4" -> 4 [] c = "5" -> 5 [] c = "6" -> 6 [] c = "7" -> 7
    [] c = "8" -> 8 [] c = "9" -> 9

\* int is 16 bits wide on the ATmega2560
IntBits == 16

\* the conversion of the long that parseInt returns to int pos
toInt(v) ==
  LET m == v % (2 ^ IntBits)
  IN  IF m >= 2 ^ (IntBits - 1) THEN m - 2 ^ IntBits ELSE m

\* Stream::peekNextDigit: the bytes that are no digit are read and dropped
\* (no '-' comes over the line here)
RECURSIVE peekNextDigit(_)
peekNextDigit(buf) ==
  IF buf = << >> THEN buf
  ELSE IF Head(buf) \in Digits THEN buf
       ELSE peekNextDigit(Tail(buf))

\* the do-while of Stream::parseInt: digits are read while they come
RECURSIVE parseDigits(_, _)
parseDigits(buf, value) ==
  IF buf # << >> /\ Head(buf) \in Digits
  THEN parseDigits(Tail(buf), value * 10 + digitValue(Head(buf)))
  ELSE [value |-> value, rest |-> buf]

\* Serial.parseInt() on the bytes buf, when no more come within its timeout:
\* the number read (0 when no digit came) and the bytes left unread
parseInt(buf) ==
  LET b == peekNextDigit(buf)
  IN  IF b = << >> THEN [value |-> 0, rest |-> b] ELSE parseDigits(b, 0)

\* What the operator sends, a line at a time: a command, or at a prompt a
\* cell number, among them 0 and 65545, which are no cells.
CommandLines ==
  {<<"1">>, <<"2">>, <<"3">>, <<"4">>, <<"5">>, <<"6">>, <<"0">>, <<"r">>,
   <<"h">>}
EntryLines == CommandLines \cup {<<"6", "5", "5", "4", "5">>}

\* The operator sends a line once the firmware has read the one before.
TaskReceives(line) ==
  /\ pc \in {"loop", "humanWait", "task2Input", "task3Wait"}
  /\ pc \in {"loop", "humanWait"} => line \in CommandLines
  /\ serialIn = << >>
  /\ events < MaxTaskEvents
  /\ serialIn' = line
  /\ events' = events + 1
  /\ UNCHANGED <<pc, mode, boardState, storedBoardState, previousState,
                 blackPiecesCount, whitePiecesCount, currentPlayer, gameActive,
                 moveDetectionFirstRun, machineMove, humanMove, timedOut,
                 serialOut, sensors, boardRotated, currentMagnetState,
                 position, taskVars>>

\* The board is turned by 45 degrees, or turned back.
RotationChanges ==
  /\ pc \in {"loop", "task3Wait"}
  /\ events < MaxTaskEvents
  /\ rotationSensor' = ~rotationSensor
  /\ events' = events + 1
  /\ UNCHANGED <<pc, mode, boardState, storedBoardState, previousState,
                 blackPiecesCount, whitePiecesCount, currentPlayer, gameActive,
                 moveDetectionFirstRun, machineMove, humanMove, timedOut,
                 serialIn, serialOut, sensors, boardRotated,
                 currentMagnetState, position, positions, placed>>

\* 'h': printHelp
CommandHelp ==
  /\ pc = "loop"
  /\ serialIn # << >>
  /\ Head(serialIn) = "h"
  /\ serialIn' = Tail(serialIn)
  /\ LET g == loopHead
     IN  /\ boardState' = g.board
         /\ storedBoardState' = g.stored
         /\ blackPiecesCount' = g.bc
         /\ whitePiecesCount' = g.wc
         /\ sensors' = g.sens
         /\ moveDetectionFirstRun' = g.firstRun
         /\ serialOut' = g.out \o <<"help">>
         /\ currentMagnetState' = g.magnet
         /\ position' = g.pos
  /\ boardRotated' = rotationSensor
  /\ UNCHANGED <<pc, mode, previousState, currentPlayer, gameActive,
                 machineMove, humanMove, timedOut, events, taskVars>>

\* '2': placeTwoBlackTwoWhite, up to the first for loop
Command2 ==
  /\ pc = "loop"
  /\ serialIn # << >>
  /\ Head(serialIn) = "2"
  /\ serialIn' = Tail(serialIn)
  /\ LET g == loopHead
     IN  /\ boardState' = g.board
         /\ storedBoardState' = g.stored
         /\ blackPiecesCount' = g.bc
         /\ whitePiecesCount' = g.wc
         /\ sensors' = g.sens
         /\ moveDetectionFirstRun' = g.firstRun
         /\ serialOut' = g.out \o <<"task2", "enterPositions">>
         /\ currentMagnetState' = g.magnet
         /\ position' = g.pos
  /\ boardRotated' = rotationSensor
  /\ pc' = "task2Input"
  /\ positions' = << >>
  /\ placed' = 0
  /\ UNCHANGED <<mode, previousState, currentPlayer, gameActive, machineMove,
                 humanMove, timedOut, events, rotationSensor>>

\* '3': placeTwoBlackTwoWhiteWithRotation, up to the first test of
\* while (!boardRotated), and on to placeTwoBlackTwoWhite if it fails
Command3 ==
  /\ pc = "loop"
  /\ serialIn # << >>
  /\ Head(serialIn) = "3"
  /\ serialIn' = Tail(serialIn)
  /\ LET g == loopHead
     IN  /\ boardState' = g.board
         /\ storedBoardState' = g.stored
         /\ blackPiecesCount' = g.bc
         /\ whitePiecesCount' = g.wc
         /\ sensors' = g.sens
         /\ moveDetectionFirstRun' = g.firstRun
         /\ serialOut' = g.out \o
              IF rotationSensor
              THEN <<"task3", "rotated", "task2", "enterPositions">>
              ELSE <<"task3">>
         /\ currentMagnetState' = g.magnet
         /\ position' = g.pos
  /\ boardRotated' = rotationSensor
  /\ pc' = IF rotationSensor THEN "task2Input" ELSE "task3Wait"
  /\ positions' = << >>
  /\ placed' = 0
  /\ UNCHANGED <<mode, previousState, currentPlayer, gameActive, machineMove,
                 humanMove, timedOut, events, rotationSensor>>

\* one iteration of while (!boardRotated) and, when the board is found
\* rotated, the start of placeTwoBlackTwoWhite
Task3Poll ==
  /\ pc = "task3Wait"
  /\ boardRotated' = rotationSensor
  /\ IF rotationSensor
     THEN /\ pc' = "task2Input"
          /\ serialOut' = <<"rotated", "task2", "enterPositions">>
     ELSE UNCHANGED <<pc, serialOut>>
  /\ UNCHANGED <<mode, boardState, storedBoardState, previousState,
                 blackPiecesCount, whitePiecesCount, currentPlayer, gameActive,
                 moveDetectionFirstRun, machineMove, humanMove, timedOut,
                 serialIn, sensors, events, currentMagnetState, position,
                 taskVars>>

\* one iteration of the first for loop of placeTwoBlackTwoWhite: the wait
\* for a byte, parseInt, the range test
Task2Read ==
  /\ pc = "task2Input"
  /\ serialIn # << >>
  /\ LET p == parseInt(serialIn)
         pos == toInt(p.value)
     IN  /\ serialIn' = p.rest
         /\ IF pos >= 1 /\ pos <= 9
            THEN /\ positions' = Append(positions, pos - 1)
                 /\ UNCHANGED serialOut
            ELSE /\ positions' = positions
                 /\ serialOut' = <<"invalidPosition">>
  /\ pc' = IF Len(positions') = 4 THEN "task2Place" ELSE pc
  /\ UNCHANGED <<mode, boardState, storedBoardState, previousState,
                 blackPiecesCount, whitePiecesCount, currentPlayer, gameActive,
                 moveDetectionFirstRun, machineMove, humanMove, timedOut,
                 sensors, events, boardRotated, currentMagnetState, position,
                 rotationSensor, placed>>

\* one iteration of the second for loop of placeTwoBlackTwoWhite and, after
\* the fourth, moveToHome
Task2Place ==
  /\ pc = "task2Place"
  /\ LET i == placed
         colour == IF i < 2 THEN Black ELSE White
         count == IF i < 2 THEN blackPiecesCount ELSE whitePiecesCount
         held == pickMagnet(count, colour, currentMagnetState)
         cell == positions[i + 1]
     IN  /\ blackPiecesCount' =
              IF i < 2 THEN pickCount(blackPiecesCount) ELSE blackPiecesCount
         /\ whitePiecesCount' =
              IF i < 2 THEN whitePiecesCount ELSE pickCount(whitePiecesCount)
         /\ sensors' = placePiece(sensors, cell, held)
         /\ currentMagnetState' = disableMagnet(held)
         /\ IF i + 1 < 4
            THEN /\ placed' = i + 1
                 /\ position' = cell
                 /\ serialOut' = <<"placed">>
                 /\ UNCHANGED <<pc, positions>>
            ELSE /\ placed' = 0
                 /\ positions' = << >>
                 /\ position' = Home
                 /\ serialOut' = <<"placed", "task2Done">>
                 /\ pc' = "loop"
  /\ UNCHANGED <<mode, boardState, storedBoardState, previousState,
                 currentPlayer, gameActive, moveDetectionFirstRun, machineMove,
                 humanMove, timedOut, serialIn, events, boardRotated,
                 rotationSensor>>

\* The commands are tried with the supply full and with one piece of each
\* colour left, as after earlier commands '1' and '2'.
TasksInit ==
  /\ pc = "loop"
  /\ mode = "none"
  /\ boardState = EmptyBoard
  /\ storedBoardState = EmptyBoard
  /\ previousState = EmptyBoard
  /\ blackPiecesCount \in {InitialPieces, 1}
  /\ whitePiecesCount = blackPiecesCount
  /\ currentPlayer = 1
  /\ gameActive = FALSE
  /\ moveDetectionFirstRun = TRUE
  /\ machineMove = -1
  /\ humanMove = -1
  /\ timedOut = FALSE
  /\ serialIn = << >>
  /\ serialOut = <<"ready">>
  /\ sensors = EmptyBoard
  /\ events = 0
  /\ boardRotated = FALSE
  /\ rotationSensor = FALSE
  /\ currentMagnetState = 0
  /\ position = Home
  /\ positions = << >>
  /\ placed = 0

NextTasks ==
  \/ \E line \in EntryLines : TaskReceives(line)
  \/ RotationChanges
  \/ LoopIdle
  \/ Command1
  \/ Command2
  \/ Command3
  \/ Command4
  \/ Command5
  \/ Command6
  \/ CommandReset
  \/ CommandHelp
  \/ CommandIgnored
  \/ MachineTurn
  \/ WaitPoll
  \/ Task3Poll
  \/ Task2Read
  \/ Task2Place

SpecTasks == TasksInit /\ [][NextTasks]_vars

(***************************************************************************)
(* The machine's turn from every board a session can hand to findBestMove: *)
(* the human's supply is untouched, the machine has picked 0..5 pieces.    *)
(***************************************************************************)
RulesInit ==
  /\ pc = "machineTurn"
  /\ mode \in {"machineFirst", "humanFirst"}
  /\ boardState \in Boards
  /\ storedBoardState = boardState
  /\ previousState = EmptyBoard
  /\ \E k \in 0..InitialPieces :
       /\ blackPiecesCount =
            IF mode = "machineFirst" THEN InitialPieces - k ELSE InitialPieces
       /\ whitePiecesCount =
            IF mode = "machineFirst" THEN InitialPieces ELSE InitialPieces - k
  /\ currentPlayer = 1
  /\ gameActive = TRUE
  /\ moveDetectionFirstRun = TRUE
  /\ machineMove = -1
  /\ humanMove = -1
  /\ timedOut = FALSE
  /\ serialIn = << >>
  /\ serialOut = << >>
  /\ sensors = boardState
  /\ events = MaxEvents
  /\ boardRotated = FALSE
  /\ rotationSensor = FALSE
  /\ currentMagnetState = 0
  /\ position = Home
  /\ positions = << >>
  /\ placed = 0

NextRules == MachineTurn

SpecRules == RulesInit /\ [][NextRules]_vars

(***************************************************************************)
(* The guard on its own: loop() runs with gameActive true, as the guard    *)
(* is written for.  The reference holds up to two tracked pieces, the      *)
(* board agrees with it, and pieces are then moved between two iterations  *)
(* of loop().                                                              *)
(***************************************************************************)
\* how many times a cell of the board is changed in one run
MaxGuardEvents == 2

\* the cells on which pieces lie and are moved in the runs of the guard: a
\* corner, the centre, an edge and the last cell
GuardCells == {0, 4, 5, 8}

\* the references the guard is tried with: at most two tracked pieces
GuardBoards ==
  {b \in Boards : /\ \A i \in Cells \ GuardCells : b[i] = Empty
                  /\ Cardinality({i \in Cells : b[i] # Empty}) <= 2}

\* somebody changes what lies on cell i while loop() is running
PieceMoved(i, v) ==
  /\ pc = "loop"
  /\ gameActive
  /\ events < MaxGuardEvents
  /\ sensors[i] # v
  /\ sensors' = [sensors EXCEPT ![i] = v]
  /\ events' = events + 1
  /\ UNCHANGED <<pc, mode, boardState, storedBoardState, previousState,
                 blackPiecesCount, whitePiecesCount, currentPlayer, gameActive,
                 moveDetectionFirstRun, machineMove, humanMove, timedOut,
                 serialIn, serialOut, boardRotated, currentMagnetState,
                 position, taskVars>>

\* The supply of each colour is either sufficient or used up.
GuardInit ==
  /\ pc = "loop"
  /\ mode = "none"
  /\ storedBoardState \in GuardBoards
  /\ boardState = storedBoardState
  /\ previousState = EmptyBoard
  /\ blackPiecesCount \in {3, 0}
  /\ whitePiecesCount \in {3, 0}
  /\ currentPlayer = 1
  /\ gameActive = TRUE
  /\ moveDetectionFirstRun \in BOOLEAN
  /\ machineMove = -1
  /\ humanMove = -1
  /\ timedOut = FALSE
  /\ serialIn = << >>
  /\ serialOut = << >>
  /\ sensors = storedBoardState
  /\ events = 0
  /\ boardRotated = FALSE
  /\ rotationSensor = FALSE
  /\ currentMagnetState = 0
  /\ position = Home
  /\ positions = << >>
  /\ placed = 0

NextGuard ==
  \/ \E i \in GuardCells, v \in {Empty, Black, White} : PieceMoved(i, v)
  \/ LoopIdle

SpecGuard == GuardInit /\ [][NextGuard]_vars

(***************************************************************************)
(* A session with a human who cooperates: the board is empty at power-on,  *)
(* the operator has sent '4' or '5', and at each of their turns the human  *)
(* puts one piece of their own colour on an empty cell and touches nothing *)
(* else.  The processor keeps running (weak fairness of the firmware's     *)
(* steps) and the human does move in the end (weak fairness of their       *)
(* placing a piece).  The 60 s timer of the wait, which only prints a      *)
(* reminder and is restarted, is left to Spec.                             *)
(***************************************************************************)
\* nothing on the board has changed since the wait began, and the human
\* puts a piece of their colour on the empty cell i
HumanPlaces(i) ==
  /\ pc = "humanWait"
  /\ updateBoardState(sensors) = previousState
  /\ sensors[i] = Empty
  /\ sensors' = [sensors EXCEPT ![i] = humanColour]
  /\ events' = events + 1
  /\ UNCHANGED <<pc, mode, boardState, storedBoardState, previousState,
                 blackPiecesCount, whitePiecesCount, currentPlayer, gameActive,
                 moveDetectionFirstRun, machineMove, humanMove, timedOut,
                 serialIn, serialOut, boardRotated, currentMagnetState,
                 position, taskVars>>

CoopInit ==
  /\ pc = "loop"
  /\ mode = "none"
  /\ boardState = EmptyBoard
  /\ storedBoardState = EmptyBoard
  /\ previousState = EmptyBoard
  /\ blackPiecesCount = InitialPieces
  /\ whitePiecesCount = InitialPieces
  /\ currentPlayer = 1
  /\ gameActive = FALSE
  /\ moveDetectionFirstRun = TRUE
  /\ machineMove = -1
  /\ humanMove = -1
  /\ timedOut = FALSE
  /\ serialIn \in {<<"4">>, <<"5">>}
  /\ serialOut = <<"ready">>
  /\ sensors = EmptyBoard
  /\ events = 0
  /\ boardRotated = FALSE
  /\ rotationSensor = FALSE
  /\ currentMagnetState = disableMagnet(0)
  /\ position = Home
  /\ positions = << >>
  /\ placed = 0

NextCoop ==
  \/ \E i \in Cells : HumanPlaces(i)
  \/ LoopIdle
  \/ Command4
  \/ Command5
  \/ MachineTurn
  \/ WaitPoll

SpecCoop ==
  /\ CoopInit
  /\ [][NextCoop]_vars
  /\ WF_vars(Firmware)
  /\ WF_vars(\E i \in Cells : HumanPlaces(i))

(***************************************************************************)
(* The sampling of the board with detectors that can both be active: the   *)
(* control loop from power-on, the commands '6' and 'r'.                   *)
(***************************************************************************)
\* how many times the detectors of a cell change what they see in one run
MaxSensorEvents == 3

\* the detectors of cell i come to see v
DetectorsChange(i, v) ==
  /\ pc = "loop"
  /\ events < MaxSensorEvents
  /\ sensors[i] # v
  /\ sensors' = [sensors EXCEPT ![i] = v]
  /\ events' = events + 1
  /\ UNCHANGED <<pc, mode, boardState, storedBoardState, previousState,
                 blackPiecesCount, whitePiecesCount, currentPlayer, gameActive,
                 moveDetectionFirstRun, machineMove, humanMove, timedOut,
                 serialIn, serialOut, boardRotated, currentMagnetState,
                 position, taskVars>>

NextSensors ==
  \/ \E i \in Cells, v \in {Empty, Black, White, Both} : DetectorsChange(i, v)
  \/ \E b \in {"6", "r"} : SerialReceives(b)
  \/ LoopIdle
  \/ Command6
  \/ CommandReset

SpecSensors == Init /\ [][NextSensors]_vars

(***************************************************************************)
(* Vocabulary of the properties                                            *)
(***************************************************************************)
Lines == {{0, 1, 2}, {3, 4, 5}, {6, 7, 8}, {0, 3, 6}, {1, 4, 7}, {2, 5, 8},
          {0, 4, 8}, {2, 4, 6}}

\* some row, column or diagonal of board b is all of colour p
HasLine(b, p) == \E L \in Lines : \A i \in L : b[i] = p

\* the Empty cells whose occupation by p completes a line of p
WinningCells(b, p) ==
  {i \in Cells : b[i] = Empty /\ HasLine([b EXCEPT ![i] = p], p)}

EmptyCells(b) == {i \in Cells : b[i] = Empty}

Lowest(S) == CHOOSE x \in S : \A y \in S : x <= y

Printed(out, msg) == \E k \in DOMAIN out : out[k] = msg

\* a step of the machine's turn (nothing else is enabled there)
MachineStep == pc = "machineTurn"

\* an iteration of the wait (every step of the environment counts an event)
PollStep == pc = "humanWait" /\ events' = events

\* the wait returned a cell: the human's move was accepted
MoveAccepted == PollStep /\ pc' # "humanWait" /\ humanMove' # -1

\* the iteration found 'r' to be the next unread byte and consumed it
AbortSeen ==
  PollStep /\ serialIn # << >> /\ Head(serialIn) = "r"
  /\ serialIn' = Tail(serialIn)

(***************************************************************************)
(* C1: for every board and player, checkWin(player) is true iff one of the *)
(* 8 lines is entirely that player's colour, whatever the supply counters. *)
(***************************************************************************)
C1_CheckWinIffLine ==
  \A p \in Colours :
    checkWin(boardState, blackPiecesCount, whitePiecesCount, p)
      <=> HasLine(boardState, p)

(***************************************************************************)
(* C2: in every machine turn, if some Empty cell completes a line of the   *)
(* machine's colour, the move chosen is such a winning cell.               *)
(***************************************************************************)
C2_MachineTakesWin ==
  [][MachineStep /\ WinningCells(boardState, machineColour) # {}
       => machineMove' \in WinningCells(boardState, machineColour)]_vars

(***************************************************************************)
(* C3: in every machine turn, if the machine has no winning cell and the   *)
(* human has one, the move chosen is the lowest cell blocking the human.   *)
(***************************************************************************)
C3_MachineBlocks ==
  [][MachineStep /\ WinningCells(boardState, machineColour) = {}
       /\ WinningCells(boardState, humanColour) # {}
       => machineMove' = Lowest(WinningCells(boardState, humanColour))]_vars

(***************************************************************************)
(* C4: findWinningMove(player) returns the lowest Empty cell that          *)
(* completes a line of player, and -1 exactly when there is none.          *)
(***************************************************************************)
C4_LowestWinningCell ==
  \A p \in Colours :
    findWinningMove(boardState, blackPiecesCount, whitePiecesCount, p) =
      IF WinningCells(boardState, p) = {} THEN -1
      ELSE Lowest(WinningCells(boardState, p))

(***************************************************************************)
(* C5: when findBestMove finds neither a winning nor a blocking cell it    *)
(* returns the centre if Empty, else the first Empty corner of 0, 2, 6, 8, *)
(* else the first Empty edge of 1, 3, 5, 7; so the first move of a         *)
(* machine-first session is cell 4 and, with Black on 4 and White on 0,    *)
(* the second is cell 2.                                                   *)
(***************************************************************************)
LadderCell(b) ==
  IF b[4] = Empty THEN 4
  ELSE IF EmptyCells(b) \cap {0, 2, 6, 8} # {}
       THEN Lowest(EmptyCells(b) \cap {0, 2, 6, 8})
       ELSE Lowest(EmptyCells(b) \cap {1, 3, 5, 7})

AfterCentreAndCorner == [EmptyBoard EXCEPT ![4] = Black, ![0] = White]

C5_FallbackLadder ==
  [][MachineStep =>
       /\ ( /\ findWinningMove(boardState, blackPiecesCount,
                               whitePiecesCount, machineColour) = -1
            /\ findWinningMove(boardState, blackPiecesCount,
                               whitePiecesCount, humanColour) = -1
            /\ EmptyCells(boardState) # {}
            => machineMove' = LadderCell(boardState) )
       /\ (mode = "machineFirst" /\ machineMove = -1 => machineMove' = 4)
       /\ (mode = "machineFirst" /\ boardState = AfterCentreAndCorner
            => machineMove' = 2)]_vars

C5_Witness ==
  /\ mode = "machineFirst"
  /\ pc = "humanWait"
  /\ humanMove = 0
  /\ machineMove = 2
  /\ boardState = [AfterCentreAndCorner EXCEPT ![2] = Black]

(***************************************************************************)
(* C6: findBestMove returns -1 iff the board has no Empty cell; a cell it  *)
(* returns is in 0..8 and Empty on the board of the call.                  *)
(***************************************************************************)
C6_MoveIsEmptyCell ==
  [][MachineStep =>
       /\ (machineMove' = -1 <=> EmptyCells(boardState) = {})
       /\ (machineMove' # -1 => machineMove' \in EmptyCells(boardState))]_vars

C6_Witness ==
  /\ pc = "loop"
  /\ machineMove = -1
  /\ EmptyCells(boardState) = {}
  /\ Printed(serialOut, "noMoves")

(***************************************************************************)
(* C7: when an accepted human move leaves three pieces of the human's      *)
(* colour in a line, the session ends there with the human reported as     *)
(* winner: gameActive is false and the machine makes no further move.      *)
(***************************************************************************)
C7_HumanWinEndsSession ==
  [][MoveAccepted /\ HasLine(boardState', humanColour)
       => /\ gameActive' = FALSE
          /\ pc' = "loop"
          /\ Printed(serialOut', "humanWins")]_vars

(***************************************************************************)
(* C8: the wait for the human's move returns only on a new piece of the    *)
(* human's colour on a previously Empty cell, on an abort request or on an *)
(* illegal move; the timeout only prints a reminder and restarts the       *)
(* timer, it ends neither the wait nor the session.                        *)
(***************************************************************************)
NewPieceSeen ==
  \E i \in Cells : /\ humanMove' = i
                   /\ boardState'[i] = humanColour
                   /\ sensors[i] = humanColour
                   /\ previousState[i] = Empty

IllegalMoveSeen ==
  /\ humanMove' = -1
  /\ \E i \in Cells : /\ boardState'[i] = humanColour
                      /\ previousState[i] \notin {Empty, humanColour}

C8_WaitExits ==
  [][PollStep =>
       /\ (pc' # "humanWait" => NewPieceSeen \/ AbortSeen \/ IllegalMoveSeen)
       /\ (timedOut /\ pc' = "humanWait"
            => gameActive' /\ ~timedOut' /\ serialOut' = <<"timeout">>)]_vars

C8_Witness ==
  /\ pc = "humanWait"
  /\ gameActive
  /\ ~timedOut
  /\ serialOut = <<"timeout">>

(***************************************************************************)
(* C9: while a session waits for the human's move, an 'r' in the serial    *)
(* input ends the wait at the next poll iteration, whatever else the       *)
(* input buffer holds.                                                     *)
(***************************************************************************)
C9_AbortNeverMissed ==
  [][PollStep /\ (\E k \in DOMAIN serialIn : serialIn[k] = "r")
       => pc' # "humanWait"]_vars

(***************************************************************************)
(* C10, as claimed: 'r' during the wait leaves the reset state: gameActive *)
(* false, Board and reference all Empty, both supply counters 5.           *)
(***************************************************************************)
C10_AbortResets ==
  [][AbortSeen
       => /\ gameActive' = FALSE
          /\ boardState' = EmptyBoard
          /\ storedBoardState' = EmptyBoard
          /\ blackPiecesCount' = InitialPieces
          /\ whitePiecesCount' = InitialPieces]_vars

(***************************************************************************)
(* C10, amended: when the wait finds 'r' to be the next unread byte, the   *)
(* session ends as aborted (gameActive false, control back in loop(), no   *)
(* further machine move), and Board, reference and supply counters keep    *)
(* the values they had: nothing is reset.                                  *)
(***************************************************************************)
C10_AbortFinishes ==
  [][PollStep /\ serialIn # << >> /\ Head(serialIn) = "r"
       => /\ serialIn' = Tail(serialIn)
          /\ gameActive' = FALSE
          /\ pc' = "loop"
          /\ Printed(serialOut', "aborted")
          /\ machineMove' = machineMove
          /\ boardState' = boardState
          /\ storedBoardState' = storedBoardState
          /\ blackPiecesCount' = blackPiecesCount
          /\ whitePiecesCount' = whitePiecesCount]_vars

C10_Witness ==
  /\ pc = "loop"
  /\ ~gameActive
  /\ humanMove = -1
  /\ Printed(serialOut, "aborted")
  /\ ~Printed(serialOut, "notEmptyCell")
  /\ storedBoardState # EmptyBoard
  /\ blackPiecesCount < InitialPieces

(***************************************************************************)
(* C11: when, during the human's turn, the board shows a piece of the      *)
(* machine's colour on a cell that was Empty at the start of the wait, the *)
(* move is treated as illegal: the session ends (gameActive false), and    *)
(* the piece does not enter the reference of a session that goes on.       *)
(***************************************************************************)
WrongColourCells ==
  {i \in Cells : sensors[i] = machineColour /\ previousState[i] = Empty}

C11_WrongColourEndsSession ==
  [][PollStep /\ ~abortRequested(serialIn) /\ WrongColourCells # {}
       => /\ gameActive' = FALSE
          /\ pc' = "loop"
          /\ \A i \in WrongColourCells :
               storedBoardState'[i] # machineColour]_vars

(***************************************************************************)
(* C12: when the wait for the human's move finds the human's colour on a   *)
(* cell that was occupied at the start of the wait (the first cell, in the *)
(* order of its scan, that newly holds the human's colour held a piece),   *)
(* the move is not accepted: the session ends (gameActive false), the      *)
(* reference keeps the board from before the overwrite, and no machine     *)
(* move follows.                                                           *)
(***************************************************************************)
NewHumanCells ==
  {i \in Cells : sensors[i] = humanColour /\ previousState[i] # humanColour}

OverwriteFound ==
  /\ PollStep
  /\ ~abortRequested(serialIn)
  /\ NewHumanCells # {}
  /\ previousState[Lowest(NewHumanCells)] # Empty

PickOf(colour) ==
  \/ /\ pc = "loop" /\ serialIn # << >> /\ Head(serialIn) = "1"
     /\ serialIn' = Tail(serialIn)
     /\ colour = Black
  \/ /\ pc = "task2Place"
     /\ colour = IF placed < 2 THEN Black ELSE White
  \/ /\ pc = "machineTurn" /\ machineMove' # -1
     /\ colour = machineColour

\* the step executes a command that calls resetGame
ResetStep ==
  /\ pc = "loop" /\ serialIn # << >> /\ Head(serialIn) \in {"r", "4", "5"}
  /\ serialIn' = Tail(serialIn)

C13_SupplyLedger ==
  [][/\ blackPiecesCount \in 0..InitialPieces
     /\ whitePiecesCount \in 0..InitialPieces
     /\ blackPiecesCount' \in 0..InitialPieces
     /\ whitePiecesCount' \in 0..InitialPieces
     /\ PickOf(Black) =>
          /\ blackPiecesCount' =
               IF blackPiecesCount > 0 THEN blackPiecesCount - 1 ELSE 0
          /\ whitePiecesCount' = whitePiecesCount
     /\ PickOf(White) =>
          /\ whitePiecesCount' =
               IF whitePiecesCount > 0 THEN whitePiecesCount - 1 ELSE 0
          /\ blackPiecesCount' = blackPiecesCount
     /\ ResetStep =>
          blackPiecesCount' = InitialPieces /\ whitePiecesCount' = InitialPieces
     /\ ~PickOf(Black) /\ ~PickOf(White) /\ ~ResetStep =>
          /\ blackPiecesCount' = blackPiecesCount
          /\ whitePiecesCount' = whitePiecesCount]_vars

\* command '2' with one black piece left: the first pick took it, the
\* second was refused and nothing was placed
C13_Witness ==
  /\ pc = "task2Place"
  /\ placed = 2
  /\ blackPiecesCount = 0
  /\ whitePiecesCount = 1
  /\ positions[1] # positions[2]
  /\ sensors[positions[1]] = Black
  /\ sensors[positions[2]] = Empty

(***************************************************************************)
(* C14: when the pick for the machine's move is refused because the supply *)
(* counter of the machine's colour is 0, the session ends (gameActive      *)
(* false) and the cell of the move is not recorded as occupied, neither in *)
(* the Board nor in the reference.                                         *)
(***************************************************************************)
MachineSupply ==
  IF machineColour = Black THEN blackPiecesCount ELSE whitePiecesCount

C14_RefusedPickEndsSession ==
  [][MachineStep /\ machineMove' # -1 /\ MachineSupply = 0
       => /\ gameActive' = FALSE
          /\ pc' = "loop"
          /\ boardState'[machineMove'] = Empty
          /\ storedBoardState'[machineMove'] = Empty]_vars

(***************************************************************************)
(* C15: command 'r' (resetGame), from whatever state it is executed in,    *)
(* leaves all 9 Board cells and all 9 reference cells Empty, both supply   *)
(* counters at 5 and gameActive false; a sample of a physically empty      *)
(* board that follows yields an all-Empty Board, the counters still 5/5.   *)
(***************************************************************************)
\* loop() reads 'r' and executes it
ResetCommand ==
  /\ pc = "loop" /\ serialIn # << >> /\ Head(serialIn) = "r"
  /\ serialIn' = Tail(serialIn)

\* what resetGame is claimed to leave
ResetState ==
  /\ boardState = EmptyBoard
  /\ storedBoardState = EmptyBoard
  /\ blackPiecesCount = InitialPieces
  /\ whitePiecesCount = InitialPieces
  /\ gameActive = FALSE

\* an iteration of loop() that samples the board and has no command to read
SampleOnly == pc = "loop" /\ serialIn = << >> /\ events' = events

C15_ResetClears ==
  [][/\ ResetCommand => ResetState' /\ pc' = "loop"
     /\ ResetCommand /\ sensors' = EmptyBoard =>
          updateBoardState(sensors') = boardState'
     /\ SampleOnly /\ ResetState /\ sensors = EmptyBoard => ResetState']_vars

\* the reset state, reached by 'r' with pieces on the board
C15_Witness ==
  /\ pc = "loop"
  /\ serialOut = <<"reset">>
  /\ ResetState
  /\ sensors # EmptyBoard

(***************************************************************************)
(* C16: while a session is active, when a cell whose reference value is    *)
(* Black or White comes to read differently from the reference, the guard  *)
(* (checkForMovedPieces) eventually runs and issues a correction for it.   *)
(***************************************************************************)
\* the cells that hold a tracked piece and read differently
DisplacedCells ==
  {i \in Cells : /\ storedBoardState[i] # Empty
                 /\ updateBoardState(sensors)[i] # storedBoardState[i]}

\* the guard has just reported a moved piece
CorrectionIssued == Printed(serialOut, "moved")

C16_GuardCorrects ==
  (gameActive /\ DisplacedCells # {}) ~> CorrectionIssued

(***************************************************************************)
(* C17, as claimed: Finished is terminal: once a session has ended, the    *)
(* only command that leaves that state is 'r'; '4' or '5' issued there     *)
(* without a preceding 'r' does not start a session.                       *)
(***************************************************************************)
\* a session has just ended: its last message is the latest output
Finished == pc = "loop" /\ ~gameActive /\ Printed(serialOut, "gameOver")

\* loop() reads the byte b and executes it
Executes(b) ==
  /\ pc = "loop" /\ serialIn # << >> /\ Head(serialIn) = b
  /\ serialIn' = Tail(serialIn)

C17_FinishedIsTerminal ==
  [][Finished /\ ~Executes("r") => pc' = "loop" /\ gameActive' = FALSE]_vars

(***************************************************************************)
(* C17, amended: once a session has ended, no session is active and no     *)
(* move is made until 'r', '4' or '5' is executed; 'r' leads to the reset  *)
(* state, and '4' or '5' issued in Finished, without a preceding 'r',      *)
(* resets Board, reference and supply counters itself and starts a new     *)
(* session.                                                                *)
(***************************************************************************)
\* what the start of a session leaves: everything reset, the session active
FreshSession ==
  /\ boardState = EmptyBoard
  /\ storedBoardState = EmptyBoard
  /\ blackPiecesCount = InitialPieces
  /\ whitePiecesCount = InitialPieces
  /\ gameActive = TRUE

C17_FinishedUntilRestart ==
  [][/\ pc = "loop" /\ ~Executes("4") /\ ~Executes("5") =>
          /\ pc' \notin {"machineTurn", "humanWait"}
          /\ gameActive' = FALSE
          /\ machineMove' = machineMove /\ humanMove' = humanMove
     /\ Finished /\ Executes("r") => ResetState' /\ pc' = "loop"
     /\ Finished /\ Executes("4") =>
          /\ pc' = "machineTurn" /\ mode' = "machineFirst"
          /\ FreshSession'
     /\ Finished /\ Executes("5") =>
          /\ pc' = "humanWait" /\ mode' = "humanFirst"
          /\ FreshSession']_vars

\* a session started by '4' with the human's piece of the session before
\* still on the board
C17_Witness ==
  /\ pc = "machineTurn"
  /\ mode = "machineFirst"
  /\ FreshSession
  /\ serialOut = <<"reset", "start4">>
  /\ \E i \in Cells : sensors[i] = White

(***************************************************************************)
(* C18: on every path by which a session ends, the electromagnet is off    *)
(* (currentMagnetState = 0) and the end-effector is back at the home       *)
(* position when control returns to loop(); and the electromagnet is never *)
(* on while the session waits for the human's move.                        *)
(***************************************************************************)
\* the step on which a session returns to loop()
SessionEnds == pc \in {"machineTurn", "humanWait"} /\ pc' = "loop"

C18_ActuatorReleased ==
  /\ [](pc = "humanWait" => currentMagnetState = 0)
  /\ [][SessionEnds => /\ currentMagnetState' = 0
                        /\ position' = Home
                        /\ gameActive' = FALSE]_vars

\* a session that ended after the machine had placed a piece away from the
\* home position
C18_Witness ==
  /\ pc = "loop"
  /\ Printed(serialOut, "gameOver")
  /\ machineMove \in Cells \ {Home}
  /\ sensors[machineMove] \in Colours
  /\ position = Home
  /\ currentMagnetState = 0

(***************************************************************************)
(* C19: 'r' interrupts every blocking wait: while command '2' waits for    *)
(* its 4 cell numbers and while command '3' waits for the rotation sensor, *)
(* an 'r' received ends the wait and aborts the command, with no further   *)
(* pick or place.                                                          *)
(***************************************************************************)
\* an iteration of one of the two waits with 'r' the next unread byte
WaitSeesReset ==
  /\ pc \in {"task2Input", "task3Wait"}
  /\ serialIn # << >> /\ Head(serialIn) = "r"
  /\ events' = events

C19_ResetInterruptsWaits ==
  [][WaitSeesReset
       => /\ pc' = "loop"
          /\ blackPiecesCount' = blackPiecesCount
          /\ whitePiecesCount' = whitePiecesCount
          /\ sensors' = sensors]_vars

(***************************************************************************)
(* C20: command '2' performs no pick or place until exactly 4 cell numbers *)
(* in 1..9 have been received; an entry out of that range is rejected and  *)
(* does not count toward the 4; the command then places, in the order      *)
(* entered, a Black piece on the 1st and 2nd cells and a White piece on    *)
(* the 3rd and 4th.  Command '3' does the same, and performs no pick       *)
(* before the rotation sensor has reported the board rotated.              *)
(***************************************************************************)
\* the command is waiting: for the board to be rotated or for a number
TaskWaits == pc \in {"task2Input", "task3Wait"}

\* an iteration of the wait for a number that has bytes to read
ReadStep == pc = "task2Input" /\ serialIn # << >> /\ events' = events

\* the number entered: the decimal value of the digits typed (0 if none)
EnteredNumber == parseInt(serialIn).value

\* the colour of the piece the command places next, and its supply
TaskColour == IF placed < 2 THEN Black ELSE White
TaskSupply == IF placed < 2 THEN blackPiecesCount ELSE whitePiecesCount

C20_TaskInput ==
  [][/\ TaskWaits =>
          /\ blackPiecesCount' = blackPiecesCount
          /\ whitePiecesCount' = whitePiecesCount
          /\ sensors' = sensors
          /\ currentMagnetState' = 0
          /\ pc' = "task2Place" => Len(positions') = 4
     /\ pc = "task3Wait" /\ pc' # "task3Wait" => rotationSensor
     /\ ReadStep =>
          IF EnteredNumber \in 1..9
          THEN positions' = Append(positions, EnteredNumber - 1)
          ELSE /\ positions' = positions
               /\ pc' = "task2Input"
               /\ serialOut' = <<"invalidPosition">>
     /\ pc = "task2Place" =>
          /\ Len(positions) = 4
          /\ position' = IF placed < 3 THEN positions[placed + 1] ELSE Home
          /\ sensors' = IF TaskSupply > 0
                        THEN [sensors EXCEPT ![positions[placed + 1]] =
                                TaskColour]
                        ELSE sensors
          /\ placed' = (placed + 1) % 4
          /\ pc' = IF placed < 3 THEN "task2Place" ELSE "loop"]_vars

(***************************************************************************)
(* Vocabulary of the guard's properties                                    *)
(***************************************************************************)
\* an iteration of loop() in which the guard compares board and reference
GuardRun ==
  /\ pc = "loop"
  /\ gameActive
  /\ ~moveDetectionFirstRun
  /\ serialIn = << >>
  /\ events' = events

\* the cells that read differently from the reference
MismatchCells ==
  {i \in Cells : updateBoardState(sensors)[i] # storedBoardState[i]}

\* how many corrections the lines printed report
Corrections(out) ==
  Cardinality({k \in DOMAIN out : out[k] \in {"restoredBlack", "restoredWhite"}})

FirstMismatch == Lowest(MismatchCells)

FirstInvocation == loopHead

\* the globals after the iteration that follows it at once
SecondInvocation ==
  checkForMovedPieces(
    [board |-> updateBoardState(FirstInvocation.sens),
     stored |-> FirstInvocation.stored,
     bc |-> FirstInvocation.bc, wc |-> FirstInvocation.wc,
     sens |-> FirstInvocation.sens, firstRun |-> FirstInvocation.firstRun,
     pos |-> FirstInvocation.pos, magnet |-> FirstInvocation.magnet,
     out |-> << >>], gameActive)

C23_GuardIdempotent ==
  pc = "loop" /\ gameActive =>
    /\ SecondInvocation.out = << >>
    /\ SecondInvocation.stored = FirstInvocation.stored
    /\ SecondInvocation.bc = FirstInvocation.bc
    /\ SecondInvocation.wc = FirstInvocation.wc
    /\ SecondInvocation.sens = FirstInvocation.sens

\* a tracked piece is displaced, the first of the two invocations corrects
\* it and the supply has the piece to do it with
C23_Witness ==
  /\ pc = "loop"
  /\ gameActive
  /\ ~moveDetectionFirstRun
  /\ DisplacedCells # {}
  /\ Corrections(FirstInvocation.out) >= 1
  /\ FirstInvocation.bc + FirstInvocation.wc
       < blackPiecesCount + whitePiecesCount

(***************************************************************************)
(* C24: win is checked before draw after every accepted move: a session    *)
(* ends with the outcome "draw" only when the Board is full and neither    *)
(* colour has a complete row, column or diagonal, and it never reports a   *)
(* win for one player on a Board where the other player's line was         *)
(* completed by an earlier accepted move.                                  *)
(***************************************************************************)
\* the step of a session that ends it and prints msg
EndsWith(msg) == SessionEnds /\ events' = events /\ Printed(serialOut', msg)

C24_WinBeforeDraw ==
  [][/\ EndsWith("draw") =>
          /\ isBoardFull(boardState')
          /\ ~HasLine(boardState', Black)
          /\ ~HasLine(boardState', White)
     /\ EndsWith("machineWins") =>
          /\ HasLine(boardState', machineColour)
          /\ ~HasLine(storedBoardState, humanColour)
     /\ EndsWith("humanWins") =>
          /\ HasLine(boardState', humanColour)
          /\ ~HasLine(storedBoardState, machineColour)]_vars

(***************************************************************************)
(* C25: the rule-engine functions have no side effects: on return from     *)
(* checkWin, isBoardFull, findWinningMove and findBestMove the Board is    *)
(* the Board at the call (the tentative placement of findWinningMove is    *)
(* reverted, also on the path that returns a winning cell), and the        *)
(* reference and the supply counters are unchanged.                        *)
(***************************************************************************)
\* the Board on return from the rule-engine calls of a machine's turn is
\* the Board at the call
BoardRestored ==
  /\ \A p \in Colours :
       findWinningMoveBoard(boardState, blackPiecesCount, whitePiecesCount, p)
         = boardState
  /\ findBestMoveBoard(boardState, blackPiecesCount, whitePiecesCount,
                       machineColour) = boardState

C25_RuleEngineIsPure ==
  [][MachineStep =>
       /\ BoardRestored
       \* the turn changes the cell of the move, the reference follows the
       \* Board and the machine's counter counts the pick: nothing else
       /\ \A i \in Cells \ {machineMove'} : boardState'[i] = boardState[i]
       /\ IF machineMove' = -1
          THEN /\ boardState' = boardState
               /\ storedBoardState' = storedBoardState
               /\ blackPiecesCount' = blackPiecesCount
               /\ whitePiecesCount' = whitePiecesCount
          ELSE /\ boardState'[machineMove'] = machineColour
               /\ storedBoardState' = boardState'
               /\ blackPiecesCount' = IF machineColour = Black
                                      THEN pickCount(blackPiecesCount)
                                      ELSE blackPiecesCount
               /\ whitePiecesCount' = IF machineColour = White
                                      THEN pickCount(whitePiecesCount)
                                      ELSE whitePiecesCount]_vars

\* the machine has played a cell that findWinningMove returned: with three
\* or more of its pieces picked before the turn, it has completed a line
C25_Witness ==
  /\ pc = "loop"
  /\ Printed(serialOut, "machineWins")
  /\ machineMove \in Cells
  /\ blackPiecesCount <= 1 \/ whitePiecesCount <= 1

(***************************************************************************)
(* C26: when a board sample finds both polarity detectors of a cell        *)
(* active, the cell is resolved to Black (south takes priority), the       *)
(* ambiguous sensor state is flagged as a fault in the log, and operation  *)
(* is not halted.                                                          *)
(***************************************************************************)
\* the cells both of whose detectors are active
AmbiguousCells ==
  {i \in Cells : hallSensorS(sensors, i) /\ hallSensorN(sensors, i)}

\* an iteration of loop() that leaves the sample in boardState
SampleKept ==
  /\ pc = "loop"
  /\ events' = events
  /\ serialIn # << >> => Head(serialIn) # "r"

\* the cells are resolved to Black and the firmware goes on
ResolvedToBlack ==
  [][SampleKept /\ AmbiguousCells # {} =>
       /\ \A i \in AmbiguousCells : boardState'[i] = Black
       /\ pc' = "loop"]_vars

C26_AmbiguityFlagged ==
  [][SampleKept /\ AmbiguousCells # {} =>
       /\ \A i \in AmbiguousCells : boardState'[i] = Black
       /\ Printed(serialOut', "sensorFault")
       /\ pc' = "loop"]_vars

(***************************************************************************)
(* C27: gameActive is false at every point where the control loop runs:    *)
(* every time loop() calls checkForMovedPieces and every time              *)
(* executeCommand returns.  It is true only inside the blocking calls      *)
(* startGameAsMachine / startGameAsHuman, all of whose exit paths set it   *)
(* to false, so the guard returns at its gameActive gate and its           *)
(* correction branch is never executed.                                    *)
(***************************************************************************)
\* control is inside startGameAsMachine or startGameAsHuman
InSession == pc \in {"machineTurn", "humanWait"}

\* the guard, called by this iteration of loop(), returns at once
GuardReturnsAtGate ==
  /\ loopHead.out = << >>
  /\ loopHead.stored = storedBoardState
  /\ loopHead.firstRun = moveDetectionFirstRun
  /\ loopHead.bc = blackPiecesCount
  /\ loopHead.wc = whitePiecesCount
  /\ loopHead.sens = sensors
  /\ loopHead.magnet = currentMagnetState

C27_GuardNeverActs ==
  /\ gameActive => InSession
  /\ pc = "loop" => ~gameActive /\ GuardReturnsAtGate
  /\ ~Printed(serialOut, "moved")

\* a session has ended with a tracked piece off its cell, and loop() runs
C27_Witness ==
  /\ pc = "loop"
  /\ Printed(serialOut, "gameOver")
  /\ DisplacedCells # {}

(***************************************************************************)
(* C28: a session always terminates when the human cooperates: if at each  *)
(* of their turns the human eventually places exactly one piece of their   *)
(* own colour on an Empty cell and nothing else on the board changes,      *)
(* every session started by '4' or '5' reaches Finished (win or draw,      *)
(* gameActive false) after at most 9 accepted moves in total, with         *)
(* machine and human moves strictly alternating from the configured first  *)
(* mover and the machine making at most 5 picks.                           *)
(***************************************************************************)
\* the session has ended by a win or a draw
FinishedByWinOrDraw ==
  /\ pc = "loop"
  /\ ~gameActive
  /\ Printed(serialOut, "gameOver")
  /\ \/ Printed(serialOut, "machineWins")
     \/ Printed(serialOut, "humanWins")
     \/ Printed(serialOut, "draw")

\* how many pieces board b holds
Pieces(b) == Cardinality({i \in Cells : b[i] # Empty})

\* the machine made a move in this step
MachineMoved == MachineStep /\ machineMove' # -1

\* every accepted move puts one piece of the mover's colour on a cell that
\* was Empty in Board and reference, so there are at most 9 of them
OneMoreAccepted ==
  /\ MachineMoved =>
       /\ storedBoardState[machineMove'] = Empty
       /\ storedBoardState' =
            [storedBoardState EXCEPT ![machineMove'] = machineColour]
       /\ sensors' = [sensors EXCEPT ![machineMove'] = machineColour]
  /\ MoveAccepted =>
       /\ storedBoardState[humanMove'] = Empty
       /\ storedBoardState' =
            [storedBoardState EXCEPT ![humanMove'] = humanColour]
  /\ MachineMoved \/ MoveAccepted =>
       /\ boardState' = storedBoardState'
       /\ Pieces(storedBoardState') = Pieces(storedBoardState) + 1

\* the first mover is the configured one and the movers alternate
Alternation ==
  /\ Executes("4") => pc' = "machineTurn" /\ storedBoardState' = EmptyBoard
  /\ Executes("5") => pc' = "humanWait" /\ storedBoardState' = EmptyBoard
  /\ MachineStep => machineMove' # -1 /\ pc' \in {"humanWait", "loop"}
  /\ MoveAccepted => pc' \in {"machineTurn", "loop"}
  /\ pc = "humanWait" /\ pc' # "humanWait" => MoveAccepted

\* no pick of the machine is refused, and only the machine's supply is used
PicksWithinSupply ==
  /\ MachineMoved =>
       /\ MachineSupply > 0
       /\ blackPiecesCount' + whitePiecesCount'
            = blackPiecesCount + whitePiecesCount - 1
  /\ ~MachineStep =>
       \/ Executes("4") \/ Executes("5")
       \/ /\ blackPiecesCount' = blackPiecesCount
          /\ whitePiecesCount' = whitePiecesCount

C28_SessionTerminates ==
  /\ gameActive ~> FinishedByWinOrDraw
  /\ [](InSession =>
          /\ \/ sensors = storedBoardState
             \/ /\ pc = "humanWait"
                /\ Pieces(sensors) = Pieces(storedBoardState) + 1
          /\ MachineSupply \in 0..InitialPieces
          /\ Pieces(storedBoardState) <= 8)
  /\ [][OneMoreAccepted /\ Alternation /\ PicksWithinSupply]_vars

\* a session has ended in a draw on a full board, after 9 accepted moves
C28_Witness ==
  /\ FinishedByWinOrDraw
  /\ Printed(serialOut, "draw")
  /\ Pieces(storedBoardState) = 9

====
